---- MODULE Spec2Model ----
(***************************************************************************)
(* A model of the viral-reel-ai pipeline.                                  *)
(*                                                                         *)
(*   SpecGV   one call of VideoGenerator.generate_video: the submit/poll/  *)
(*            download protocol against the video backend, one step per    *)
(*            HTTP request (src/video_generator.py).                       *)
(*   SpecAsm  one call of VideoAssembler.assemble_video, one step per      *)
(*            scene, then concatenate, render and clean up                 *)
(*            (src/video_assembler.py).                                    *)
(*   Spec     the two endpoints of src/app.py, generate_script and         *)
(*            create_video, with the per-scene loops of the narration and  *)
(*            video batches; a call of generate_video or of                *)
(*            assemble_final_video is one step there, whose result is one  *)
(*            of the results SpecGV and SpecAsm produce.                   *)
(*   SpecWrap one word wrapping of a caption by _add_caption, one step per *)
(*            word (src/video_assembler.py).                               *)
(*   SpecEnh  one call of _enhance_video_prompt (src/video_generator.py).  *)
(*   SpecBgm  one call of add_background_music (src/video_assembler.py).   *)
(*                                                                         *)
(* Python's True/False/None results are the strings "True", "False" and    *)
(* "none" (no return yet).                                                 *)
(***************************************************************************)
EXTENDS Integers, Sequences, FiniteSets, TLC

VARIABLES
    \* ---- generate_video (src/video_generator.py:36-151)
    gv_pc,          \* "idle" | "submit" | "poll" | "download" | "done"
    gv_hint,        \* the duration argument
    gv_sent,        \* create_payload["duration"] (0: no payload built yet)
    gv_attempt,     \* iterations of the polling loop begun (attempt + 1)
    gv_reqs,        \* requests issued: [submit, status, download]
    gv_ret,         \* "none" | "True" | "False"
    gv_outcome,     \* which return was taken
    gv_file,        \* output_path: "absent" | "written"
    gv_last,        \* the backend's answer to the latest status request
    gv_stub         \* what the backend did and will do:
                    \*   [sub, dl, prefix_running, succ_at]

VARIABLES
    \* ---- assemble_video (src/video_assembler.py:29-122)
    asm_pc,         \* "idle" | "start" | "scenes" | "render" | "done"
    video_clips,    \* the arguments: paths, written as scene numbers
    audio_clips,
    narrations,     \* texts
    add_captions,
    processed_clips,\* one record for each scene processed
    asm_opened,     \* media handles opened: <<"video", i>>, <<"audio", i>>,
                    \*   <<"composite", i>>, <<"final", 0>>
    asm_closed,     \* the clips close() was called on
    asm_out,        \* output_path: "absent" | "partial" | "complete"
    asm_ret,        \* "none" | "True" | "False"
    asm_outcome     \* which return was taken

VARIABLES
    \* ---- the endpoints of src/app.py
    endpoint,       \* "none" | "generate_script" | "create_video"
    cv_pc,          \* "idle" | "narration" | "video" | "assembly" | "done"
    llm,            \* what the generative backend answered:
                    \*   [shape, n, numbered]
    scenes,         \* the script's scenes, as the handler holds them
    audio_files,    \* the narration batch's list so far / result
    video_files,    \* the video batch's list so far / result
    cv_i,           \* scenes the running batch has iterated over
    cv_stages,      \* the stages invoked, in order
    cv_failed,      \* the stage that failed, "none" if none
    synth_calls,    \* per-scene synthesis calls made:
                    \*   sequence of [stage, scene, ok]
    disk,           \* files written: [audio, video], sets of scene numbers
    response        \* [code, error, video_url, scenes_count, script]

VARIABLES
    \* ---- the word wrapping of _add_caption (src/video_assembler.py:142-162)
    wrap_pc,        \* "idle" | "loop" | "flush" | "done"
    words,          \* text.split(): the length of each word, in order
    wrap_i,         \* words the loop has taken
    lines,          \* the lines completed; a line is the sequence of the
                    \*   positions (in words) of the words joined into it
    current_line    \* the line being filled, likewise

VARIABLES
    \* ---- _enhance_video_prompt (src/video_generator.py:205-233)
    enh_pc,         \* "idle" | "call" | "done"
    base_prompt,    \* the argument: [len, mentions]
    enhanced        \* the result: [base, added], the text `base` followed
                    \*   by ", " and the descriptors `added` joined by ", "

VARIABLES
    \* ---- add_background_music (src/video_assembler.py:190-240)
    bgm_pc,         \* "idle" | "load" | "fit" | "write" | "done"
    bgm_args,       \* the call: [video_duration, video_audio,
                    \*   music_duration, music_volume]
    bgm_music,      \* the local `music`: [source, duration, volume]
    bgm_out,        \* the soundtrack of the file written at output_path
    bgm_ret         \* "none" | "True" | "False"

gv_vars == <<gv_pc, gv_hint, gv_sent, gv_attempt, gv_reqs, gv_ret, gv_outcome,
             gv_file, gv_last, gv_stub>>

asm_vars == <<asm_pc, video_clips, audio_clips, narrations, add_captions,
              processed_clips, asm_opened, asm_closed, asm_out, asm_ret,
              asm_outcome>>

app_vars == <<endpoint, cv_pc, llm, scenes, audio_files, video_files, cv_i,
              cv_stages, cv_failed, synth_calls, disk, response>>

wrap_vars == <<wrap_pc, words, wrap_i, lines, current_line>>

enh_vars == <<enh_pc, base_prompt, enhanced>>

bgm_vars == <<bgm_pc, bgm_args, bgm_music, bgm_out, bgm_ret>>

vars == <<gv_vars, asm_vars, app_vars, wrap_vars, enh_vars, bgm_vars>>

----------------------------------------------------------------------------
(* Bounds of the model. *)
MaxDuration == 10
MaxClips == 3
MaxScenes == 2
MaxWords == 4

----------------------------------------------------------------------------
(* The endpoints: the state before a request. *)

NoResponse == [code |-> 0, error |-> <<"", "">>, video_url |-> "",
               scenes_count |-> 0, script |-> FALSE]

AppIdle ==
    /\ endpoint = "none" /\ cv_pc = "idle"
    /\ llm = [shape |-> "none", n |-> 0, numbered |-> TRUE]
    /\ scenes = <<>> /\ audio_files = <<>> /\ video_files = <<>>
    /\ cv_i = 0 /\ cv_stages = <<>> /\ cv_failed = "none"
    /\ synth_calls = <<>>
    /\ disk = [audio |-> {}, video |-> {}]
    /\ response = NoResponse

----------------------------------------------------------------------------
(* assemble_video *)

\* Texts, as far as the code tells them apart: empty (or missing), only
\* whitespace, and text with words in it.
Texts == {"", " ", "n"}

\* Python's truth value of a string.
Truthy(text) == text # ""

\* Durations of the media files, in tenths of a second.
VideoDurations == {80}
AudioDurations == {32, 80, 95}

Min(a, b) == IF a <= b THEN a ELSE b

\* Min replaced by the audio duration alone (set_duration(audio_duration)):
\* a video shorter than its audio would be extended.
TrimEnd_AudioOnly(video_duration, audio_duration) == audio_duration

\* video_clip.subclip(0, min(video_clip.duration, audio_duration)): the end of
\* the subclip, which starting at 0 is its duration.
TrimEnd(video_duration, audio_duration) == Min(video_duration, audio_duration)

\* zip(video_clips, audio_clips, narrations) stops with the shortest list.
ZipLen(v, a, n) == Min(Len(v), Min(Len(a), Len(n)))

\* The precondition with the narrations left out of the comparison.
AsmPrecondition_NoNarrations(v, a, n) ==
    IF Len(v) # Len(a) THEN "mismatch"
    ELSE IF v = <<>> THEN "empty"
    ELSE "ok"

\* The two checks assemble_video starts with.
AsmPrecondition(v, a, n) ==
    IF Len(v) # Len(a) \/ Len(v) # Len(n) THEN "mismatch"
    ELSE IF v = <<>> THEN "empty"
    ELSE "ok"

AsmIdle ==
    /\ asm_pc = "idle"
    /\ video_clips = <<>> /\ audio_clips = <<>> /\ narrations = <<>>
    /\ add_captions = TRUE
    /\ processed_clips = <<>> /\ asm_opened = {} /\ asm_closed = {}
    /\ asm_out = "absent" /\ asm_ret = "none" /\ asm_outcome = "none"

----------------------------------------------------------------------------
(* _add_caption: the word wrapping *)

\* max_chars_per_line = 30
max_chars_per_line == 30

\* Lengths of the words of a narration: short ones, two that fill a line
\* exactly when joined (12 + 1 + 17), one as long as a line and one longer.
WordLengths == {3, 12, 17, 30, 31}

RECURSIVE SumLen(_, _)
SumLen(ws, line) ==
    IF line = <<>> THEN 0 ELSE ws[Head(line)] + SumLen(ws, Tail(line))

\* len(' '.join(line)): the words and one space between neighbours.
JoinLen(ws, line) ==
    IF line = <<>> THEN 0 ELSE SumLen(ws, line) + Len(line) - 1

\* current_line.pop()
Pop(line) == SubSeq(line, 1, Len(line) - 1)

\* The loop body without the pop: the line is emitted with the word that
\* overflowed it.
WrapStep_NoPop(ws, st, w) ==
    LET cur == Append(st.current_line, w) IN
      IF JoinLen(ws, cur) > max_chars_per_line
        THEN [lines |-> Append(st.lines, cur), current_line |-> <<>>]
        ELSE [lines |-> st.lines, current_line |-> cur]

\* The loop body with `current_line = []` in place of `current_line = [word]`:
\* the word that overflowed the line is lost.
WrapStep_DropsWord(ws, st, w) ==
    LET cur == Append(st.current_line, w) IN
      IF JoinLen(ws, cur) > max_chars_per_line
        THEN IF Len(cur) > 1
               THEN [lines |-> Append(st.lines, Pop(cur)),
                     current_line |-> <<>>]
               ELSE [lines |-> Append(st.lines, <<w>>),
                     current_line |-> <<>>]
        ELSE [lines |-> st.lines, current_line |-> cur]

\* Lines 149-157, the body of `for word in words` for the word at position w:
\* st is [lines, current_line] before, the result is the pair after.
WrapStep(ws, st, w) ==
    LET cur == Append(st.current_line, w) IN
      IF JoinLen(ws, cur) > max_chars_per_line
        THEN IF Len(cur) > 1
               THEN [lines |-> Append(st.lines, Pop(cur)),
                     current_line |-> <<w>>]
               ELSE [lines |-> Append(st.lines, <<w>>),
                     current_line |-> <<>>]
        ELSE [lines |-> st.lines, current_line |-> cur]

WrapIdle ==
    /\ wrap_pc = "idle" /\ words = <<>> /\ wrap_i = 0
    /\ lines = <<>> /\ current_line = <<>>

\* _add_caption(video_clip, text) after `words = text.split()`: any sequence
\* of up to MaxWords words (none for a text of whitespace only).
WrapInit ==
    /\ \E n \in 0..MaxWords : words \in [1..n -> WordLengths]
    /\ wrap_pc = IF words = <<>> THEN "flush" ELSE "loop"
    /\ wrap_i = 0 /\ lines = <<>> /\ current_line = <<>>

\* One iteration of the loop.
WrapWord ==
    /\ wrap_pc = "loop"
    /\ LET w == wrap_i + 1
           st == WrapStep(words, [lines |-> lines,
                                  current_line |-> current_line], w) IN
         /\ wrap_i' = w
         /\ lines' = st.lines
         /\ current_line' = st.current_line
         /\ wrap_pc' = IF w < Len(words) THEN "loop" ELSE "flush"
    /\ UNCHANGED words

\* Lines 159-162: the line left over is emitted; caption_text is the lines
\* joined with newlines.
WrapFlush ==
    /\ wrap_pc = "flush"
    /\ lines' = IF current_line # <<>> THEN Append(lines, current_line)
                ELSE lines
    /\ wrap_pc' = "done"
    /\ UNCHANGED <<words, wrap_i, current_line>>

----------------------------------------------------------------------------
(* _enhance_video_prompt *)

\* enhancements = [...], in the order of the list.
enhancements == <<"cinematic", "high quality", "smooth camera movement",
                  "professional lighting", "detailed">>

Vocabulary == {enhancements[k] : k \in 1..Len(enhancements)}

\* The length below which a prompt is enhanced: len(base_prompt) < 200.
LengthCeiling == 200

\* How a prompt mentions a descriptor: not at all, in lower case as the list
\* spells it, or with upper-case letters in it ("Cinematic", "HIGH QUALITY").
Mentions == {"no", "lower", "upper"}

\* Lengths of prompts: the empty prompt, a short one, and the lengths around
\* the ceiling.
PromptLengths == {0, 80, 199, 200, 201}

\* The prompts told apart: the length and, for each descriptor, how the
\* prompt mentions it; the empty prompt mentions nothing.
Prompts ==
    {p \in [len : PromptLengths, mentions : [Vocabulary -> Mentions]] :
        p.len = 0 => \A e \in Vocabulary : p.mentions[e] = "no"}

\* The check made on the prompt as it is, without lower().
Lower_Unchanged(prompt) == prompt

\* base_prompt.lower(): what was written with upper-case letters reads in
\* lower case; the length is the same.
Lower(prompt) ==
    [prompt EXCEPT !.mentions =
        [e \in Vocabulary |-> IF @[e] = "upper" THEN "lower" ELSE @[e]]]

\* `e in text` for a descriptor e of the list, which is spelled in lower
\* case: a substring test that tells the cases apart.
Contains(text, e) == text.mentions[e] = "lower"

\* [e for e in enhancements if e not in lower_prompt]
MissingEnhancements(lower_prompt) ==
    SelectSeq(enhancements, LAMBDA e : ~Contains(lower_prompt, e))

\* missing_enhancements[:2]
FirstTwo(seq) == SubSeq(seq, 1, IF Len(seq) < 2 THEN Len(seq) ELSE 2)

\* The function: the prompt itself, with up to two missing descriptors
\* appended when there are any and the prompt is shorter than the ceiling.
EnhanceVideoPrompt(prompt) ==
    LET missing_enhancements == MissingEnhancements(Lower(prompt)) IN
      IF missing_enhancements # <<>> /\ prompt.len < LengthCeiling
        THEN [base |-> prompt, added |-> FirstTwo(missing_enhancements)]
        ELSE [base |-> prompt, added |-> <<>>]

NoPrompt == [len |-> 0, mentions |-> [e \in Vocabulary |-> "no"]]

EnhIdle ==
    /\ enh_pc = "idle" /\ base_prompt = NoPrompt
    /\ enhanced = [base |-> NoPrompt, added |-> <<>>]

\* A call _enhance_video_prompt(base_prompt).
EnhInit ==
    /\ enh_pc = "call" /\ base_prompt \in Prompts
    /\ enhanced = [base |-> NoPrompt, added |-> <<>>]

Enhance ==
    /\ enh_pc = "call"
    /\ enhanced' = EnhanceVideoPrompt(base_prompt)
    /\ enh_pc' = "done"
    /\ UNCHANGED base_prompt

----------------------------------------------------------------------------
(* add_background_music *)

\* Durations in tenths of a second; volumes in tenths of the original
\* (music_volume = 0.1 is 1, an unchanged track is 10).
BgmVideoDurations == {80, 160, 240}
BgmMusicDurations == {30, 80, 160, 300}
MusicVolumes == {0, 1, 5, 10}

NoTrack == [source |-> "none", duration |-> 0, volume |-> 0]

\* video.set_audio(music): the clip's soundtrack is the one given; the one
\* the clip had is not part of the result.
SetAudio(video_audio, track) == track

BgmIdle ==
    /\ bgm_pc = "idle"
    /\ bgm_args = [video_duration |-> 0, video_audio |-> "none",
                   music_duration |-> 0, music_volume |-> 0]
    /\ bgm_music = NoTrack /\ bgm_out = NoTrack /\ bgm_ret = "none"

\* A call add_background_music(video_path, music_path, output_path,
\* music_volume) on a video with or without a soundtrack of its own.
BgmInit ==
    /\ bgm_pc = "load"
    /\ bgm_args \in [video_duration : BgmVideoDurations,
                     video_audio : {"none", "narration"},
                     music_duration : BgmMusicDurations,
                     music_volume : MusicVolumes]
    /\ bgm_music = NoTrack /\ bgm_out = NoTrack /\ bgm_ret = "none"

\* Lines 205-206: open the two files; either may raise (lines 238-240).
BgmLoad ==
    /\ bgm_pc = "load"
    /\ \E raises \in BOOLEAN :
         IF raises
           THEN /\ bgm_pc' = "done" /\ bgm_ret' = "False"
                /\ UNCHANGED bgm_music
           ELSE /\ bgm_pc' = "fit" /\ bgm_ret' = bgm_ret
                /\ bgm_music' = [source |-> "music",
                                 duration |-> bgm_args.music_duration,
                                 volume |-> 10]
    /\ UNCHANGED <<bgm_args, bgm_out>>

\* Lines 208-215: loop the music when it is shorter than the video, cut it
\* at the video's duration otherwise; scale its volume.
BgmFit ==
    /\ bgm_pc = "fit"
    /\ bgm_music' = [source |-> "music",
                     duration |-> bgm_args.video_duration,
                     volume |-> (bgm_music.volume * bgm_args.music_volume)
                                    \div 10]
    /\ bgm_pc' = "write"
    /\ UNCHANGED <<bgm_args, bgm_out, bgm_ret>>

\* Lines 217-236: final_audio is computed and dropped when the video has a
\* soundtrack; set_audio(music) in either case; write the file (which may
\* raise), close, return True.
BgmWrite ==
    /\ bgm_pc = "write"
    /\ \E raises \in BOOLEAN :
         IF raises
           THEN /\ bgm_ret' = "False" /\ UNCHANGED bgm_out
           ELSE /\ bgm_ret' = "True"
                /\ bgm_out' = SetAudio(bgm_args.video_audio, bgm_music)
    /\ bgm_pc' = "done"
    /\ UNCHANGED <<bgm_args, bgm_music>>

----------------------------------------------------------------------------
(* generate_video *)

\* max_attempts = 120
max_attempts == 120

\* "veo3* models support 8 seconds" / "gen4.5 supports 5, 8, 10 seconds"
Veo3Durations == {8}
Gen45Durations == {5, 8, 10}

\* valid_duration = 8 if duration >= 6 else 8
ValidDuration(duration) == IF duration >= 6 THEN 8 ELSE 8

\* The answers of the backend to POST /text_to_video:
\*   "created"    200/201 with an id
\*   "no_id"      200/201 without an id
\*   "http_error" any other status code
\*   "exception"  requests.post or .json() raises
SubmitResponses == {"created", "no_id", "http_error", "exception"}

\* The answers of the backend to GET /tasks/{id}:
\*   "http_error"        status code other than 200
\*   "exception"         requests.get or .json() raises
\*   "PENDING", "RUNNING", "FAILED"  a 200 with that status
\*   "OTHER"             a 200 with a status the code does not know
\*   "SUCCEEDED"         a 200, SUCCEEDED, output[0] a URL
\*   "SUCCEEDED_no_url"  a 200, SUCCEEDED, output missing or output[0] empty
\*   "SUCCEEDED_bad_output"  a 200, SUCCEEDED, output [] or null: [0] raises
PollResponses == {"http_error", "exception", "PENDING", "RUNNING", "FAILED",
                  "OTHER", "SUCCEEDED", "SUCCEEDED_no_url",
                  "SUCCEEDED_bad_output"}

\* The answers to GET video_url.
DownloadResponses == {"ok", "http_error", "exception"}

\* PollVerdict with the status compared against a name the backend never
\* sends: a SUCCEEDED answer is taken for an unknown status.
PollVerdict_UnknownSucceeded(r) ==
    CASE r \in {"exception", "SUCCEEDED_bad_output"} -> "exception"
      [] r = "FAILED"               -> "failed"
      [] OTHER                      -> "continue"

\* PollVerdict without the `if not video_url` check: the download is tried
\* on a SUCCEEDED answer that carries no URL.
PollVerdict_NoUrlCheck(r) ==
    CASE r \in {"exception", "SUCCEEDED_bad_output"} -> "exception"
      [] r \in {"SUCCEEDED", "SUCCEEDED_no_url"} -> "download"
      [] r = "FAILED"               -> "failed"
      [] OTHER                      -> "continue"

\* PollVerdict without the branch for FAILED: the loop polls on.
PollVerdict_FailedIgnored(r) ==
    CASE r \in {"exception", "SUCCEEDED_bad_output"} -> "exception"
      [] r = "SUCCEEDED"            -> "download"
      [] r = "SUCCEEDED_no_url"     -> "no_url"
      [] OTHER                      -> "continue"

\* What the body of the polling loop does with one answer:
\* "continue" (next iteration), "download", or the return taken.
PollVerdict(r) ==
    CASE r = "exception"            -> "exception"
      [] r = "http_error"           -> "continue"
      [] r = "SUCCEEDED"            -> "download"
      [] r = "SUCCEEDED_no_url"     -> "no_url"
      [] r = "SUCCEEDED_bad_output" -> "exception"
      [] r = "FAILED"               -> "failed"
      [] r \in {"PENDING", "RUNNING"} -> "continue"
      [] OTHER                      -> "continue"

\* The loop with a ceiling ten attempts higher than max_attempts.
MoreAttempts_TenMore(begun) == begun < max_attempts + 10

\* MoreAttempts with the loop bound off by one (range(max_attempts + 1)).
MoreAttempts_OneMore(begun) == begun <= max_attempts

\* for attempt in range(max_attempts): is there another iteration after
\* `begun` iterations?
MoreAttempts(begun) == begun < max_attempts

\* What generate_video returns on each exit.
GVReturn(outcome) == IF outcome = "saved" THEN "True" ELSE "False"

GVOutcomes == {"saved", "api_error", "no_task_id", "no_url", "download_error",
               "failed", "timeout", "exception"}

GVIdle ==
    /\ gv_pc = "idle" /\ gv_hint = 0 /\ gv_sent = 0 /\ gv_attempt = 0
    /\ gv_reqs = [submit |-> 0, status |-> 0, download |-> 0]
    /\ gv_ret = "none" /\ gv_outcome = "none" /\ gv_file = "absent"
    /\ gv_last = "none"
    /\ gv_stub = [sub |-> "none", dl |-> "ok", prefix_running |-> TRUE,
                  succ_at |-> 0]

\* A call generate_video(prompt, output_path, duration): the backend's answer
\* to the download, should one be made, is fixed by the stub.
GVInit ==
    /\ gv_pc = "submit"
    /\ gv_hint \in 1..MaxDuration
    /\ gv_sent = 0 /\ gv_attempt = 0
    /\ gv_reqs = [submit |-> 0, status |-> 0, download |-> 0]
    /\ gv_ret = "none" /\ gv_outcome = "none" /\ gv_file = "absent"
    /\ gv_last = "none"
    /\ \E d \in DownloadResponses :
          gv_stub = [sub |-> "none", dl |-> d, prefix_running |-> TRUE,
                     succ_at |-> 0]

GVCall == GVInit /\ AsmIdle /\ AppIdle /\ WrapIdle /\ EnhIdle /\ BgmIdle

GVExit(outcome) ==
    /\ gv_pc' = "done"
    /\ gv_outcome' = outcome
    /\ gv_ret' = GVReturn(outcome)

\* Step 1: build the payload, POST it, read the task id; an empty loop
\* (no iteration at all) falls through to the timeout return.
GVSubmit ==
    /\ gv_pc = "submit"
    /\ gv_sent' = ValidDuration(gv_hint)
    /\ gv_reqs' = [gv_reqs EXCEPT !.submit = @ + 1]
    /\ \E r \in SubmitResponses :
          /\ gv_stub' = [gv_stub EXCEPT !.sub = r]
          /\ CASE r = "exception"  -> GVExit("exception")
               [] r = "http_error" -> GVExit("api_error")
               [] r = "no_id"      -> GVExit("no_task_id")
               [] OTHER            ->
                    IF MoreAttempts(0)
                      THEN gv_pc' = "poll" /\ UNCHANGED <<gv_outcome, gv_ret>>
                      ELSE GVExit("timeout")
    /\ UNCHANGED <<gv_hint, gv_attempt, gv_file, gv_last>>

\* The stub's record of the answers given: sub is the answer to the
\* submission; succ_at is the number of the status request first answered
\* SUCCEEDED with a URL; prefix_running says that every status request before
\* that one (or so far) was answered RUNNING.
StubAfter(stub, r, n) ==
    IF stub.succ_at # 0 THEN stub
    ELSE IF r = "SUCCEEDED" THEN [stub EXCEPT !.succ_at = n]
    ELSE IF r # "RUNNING" THEN [stub EXCEPT !.prefix_running = FALSE]
    ELSE stub

\* Step 2, one iteration of the loop: one status request and what follows
\* from its answer, up to the next request or the return.
GVPoll ==
    /\ gv_pc = "poll"
    /\ gv_attempt' = gv_attempt + 1
    /\ gv_reqs' = [gv_reqs EXCEPT !.status = @ + 1]
    /\ \E r \in PollResponses :
          /\ gv_last' = r
          /\ gv_stub' = StubAfter(gv_stub, r, gv_reqs.status + 1)
          /\ LET v == PollVerdict(r) IN
               CASE v = "download" ->
                      gv_pc' = "download" /\ UNCHANGED <<gv_outcome, gv_ret>>
                 [] v = "continue" ->
                      IF MoreAttempts(gv_attempt + 1)
                        THEN gv_pc' = "poll" /\ UNCHANGED <<gv_outcome, gv_ret>>
                        ELSE GVExit("timeout")
                 [] OTHER -> GVExit(v)
    /\ UNCHANGED <<gv_hint, gv_sent, gv_file>>

\* The download tried again after an answer other than 200.
GVDownload_Retries ==
    /\ gv_pc = "download"
    /\ gv_reqs' = [gv_reqs EXCEPT !.download = @ + 1]
    /\ CASE gv_stub.dl = "ok" -> gv_file' = "written" /\ GVExit("saved")
         [] gv_stub.dl = "http_error" ->
              /\ gv_file' = gv_file
              /\ IF gv_reqs.download = 0
                   THEN gv_pc' = "download" /\ UNCHANGED <<gv_outcome, gv_ret>>
                   ELSE GVExit("download_error")
         [] OTHER -> gv_file' = gv_file /\ GVExit("exception")
    /\ UNCHANGED <<gv_hint, gv_sent, gv_attempt, gv_last, gv_stub>>

\* Step 3: download the video and save it.
GVDownload ==
    /\ gv_pc = "download"
    /\ gv_reqs' = [gv_reqs EXCEPT !.download = @ + 1]
    /\ CASE gv_stub.dl = "ok" -> gv_file' = "written" /\ GVExit("saved")
         [] gv_stub.dl = "http_error" ->
              gv_file' = gv_file /\ GVExit("download_error")
         [] OTHER -> gv_file' = gv_file /\ GVExit("exception")
    /\ UNCHANGED <<gv_hint, gv_sent, gv_attempt, gv_last, gv_stub>>

GVNext ==
    \/ GVSubmit /\ UNCHANGED <<asm_vars, app_vars, wrap_vars,
                               enh_vars, bgm_vars>>
    \/ GVPoll /\ UNCHANGED <<asm_vars, app_vars, wrap_vars,
                             enh_vars, bgm_vars>>
    \/ GVDownload /\ UNCHANGED <<asm_vars, app_vars, wrap_vars,
                                 enh_vars, bgm_vars>>

SpecGV == GVCall /\ [][GVNext]_vars

\* The call runs on: every request made is answered (with a response or an
\* exception), the sleep between two polls is finite, and the interpreter
\* takes the next step of the function as long as there is one.
SpecGVLive == SpecGV /\ WF_vars(GVNext)

----------------------------------------------------------------------------
(* _add_caption, continued: one wrapping of a narration *)

WrapNext ==
    \/ WrapWord /\ UNCHANGED <<gv_vars, asm_vars, app_vars,
                               enh_vars, bgm_vars>>
    \/ WrapFlush /\ UNCHANGED <<gv_vars, asm_vars, app_vars,
                                enh_vars, bgm_vars>>

WrapCall == WrapInit /\ GVIdle /\ AsmIdle /\ AppIdle /\ EnhIdle /\ BgmIdle

SpecWrap == WrapCall /\ [][WrapNext]_vars

----------------------------------------------------------------------------
(* _enhance_video_prompt, continued: one call *)

EnhNext ==
    Enhance /\ UNCHANGED <<gv_vars, asm_vars, app_vars, wrap_vars, bgm_vars>>

EnhCall == EnhInit /\ GVIdle /\ AsmIdle /\ AppIdle /\ WrapIdle /\ BgmIdle

SpecEnh == EnhCall /\ [][EnhNext]_vars

----------------------------------------------------------------------------
(* add_background_music, continued: one call *)

BgmNext ==
    \/ BgmLoad /\ UNCHANGED <<gv_vars, asm_vars, app_vars,
                              wrap_vars, enh_vars>>
    \/ BgmFit /\ UNCHANGED <<gv_vars, asm_vars, app_vars, wrap_vars, enh_vars>>
    \/ BgmWrite /\ UNCHANGED <<gv_vars, asm_vars, app_vars,
                               wrap_vars, enh_vars>>

BgmCall == BgmInit /\ GVIdle /\ AsmIdle /\ AppIdle /\ WrapIdle /\ EnhIdle

SpecBgm == BgmCall /\ [][BgmNext]_vars

----------------------------------------------------------------------------
(* assemble_video, continued *)

\* A call assemble_video(video_clips, audio_clips, narrations, output_path,
\* add_captions) with lists of any lengths.
AsmInit ==
    /\ asm_pc = "start"
    /\ \E nv \in 0..MaxClips, na \in 0..MaxClips :
          /\ video_clips = [i \in 1..nv |-> i]
          /\ audio_clips = [i \in 1..na |-> i]
    /\ \E nn \in 0..MaxClips : narrations \in [1..nn -> Texts]
    /\ add_captions \in BOOLEAN
    /\ processed_clips = <<>> /\ asm_opened = {} /\ asm_closed = {}
    /\ asm_out = "absent" /\ asm_ret = "none" /\ asm_outcome = "none"

AsmExit(outcome) ==
    /\ asm_pc' = "done"
    /\ asm_outcome' = outcome
    /\ asm_ret' = IF outcome = "ok" THEN "True" ELSE "False"

\* Lines 46-54: the length and emptiness checks.
AsmStart ==
    /\ asm_pc = "start"
    /\ LET c == AsmPrecondition(video_clips, audio_clips, narrations) IN
         IF c = "ok"
           THEN /\ asm_pc' = IF ZipLen(video_clips, audio_clips, narrations) > 0
                               THEN "scenes" ELSE "render"
                /\ UNCHANGED <<asm_ret, asm_outcome>>
           ELSE AsmExit(c)
    /\ UNCHANGED <<video_clips, audio_clips, narrations, add_captions,
                   processed_clips, asm_opened, asm_closed, asm_out>>

\* The fade-out given to every scene but the first.
FadeOut_AllButFirst(idx, n) == idx > 1

\* if idx == 1 / if idx == len(video_clips)
FadeIn(idx, n) == idx = 1
FadeOut(idx, n) == idx = n

\* _add_caption with its try/except removed: a caption that fails to render
\* raises into assemble_video.
AddCaption_Propagates(renders) == IF renders THEN "composite" ELSE "raises"

\* _add_caption, lines 141-188: the composite of the clip and its caption,
\* or, when anything in the rendering raised, the clip it was given.
AddCaption(renders) == IF renders THEN "composite" ELSE "original"

\* Lines 59-91, one iteration for scene idx: load both files (either load
\* may raise), trim, set the audio, caption, fade, append. An exception out
\* of the caption step would end the call as any other does (lines 118-122).
AsmScene ==
    /\ asm_pc = "scenes"
    /\ LET idx == Len(processed_clips) + 1
           n == Len(video_clips) IN
         \E vraises \in BOOLEAN, vload \in VideoDurations,
            araises \in BOOLEAN, aload \in AudioDurations,
            caption_renders \in BOOLEAN :
           IF vraises
             THEN /\ AsmExit("load_error")
                  /\ UNCHANGED <<processed_clips, asm_opened>>
           ELSE IF araises
             THEN /\ AsmExit("load_error")
                  /\ asm_opened' = asm_opened \cup {<<"video", idx>>}
                  /\ UNCHANGED processed_clips
           ELSE
             LET wants_caption == add_captions /\ Truthy(narrations[idx])
                 result == IF wants_caption THEN AddCaption(caption_renders)
                           ELSE "original"
                 captioned == result = "composite"
                 clip == [video |-> video_clips[idx],
                          audio |-> audio_clips[idx],
                          video_duration |-> vload,
                          audio_duration |-> aload,
                          duration |-> TrimEnd(vload, aload),
                          caption_tried |-> wants_caption,
                          caption_renders |-> caption_renders,
                          captioned |-> captioned,
                          fadein |-> FadeIn(idx, n),
                          fadeout |-> FadeOut(idx, n)] IN
             IF result = "raises"
               THEN /\ AsmExit("caption_error")
                    /\ asm_opened' = asm_opened \cup
                          {<<"video", idx>>, <<"audio", idx>>}
                    /\ UNCHANGED processed_clips
             ELSE
               /\ (~wants_caption => caption_renders)
               /\ processed_clips' = Append(processed_clips, clip)
               /\ asm_opened' = asm_opened \cup
                     {<<"video", idx>>, <<"audio", idx>>} \cup
                     (IF captioned THEN {<<"composite", idx>>} ELSE {})
               /\ asm_pc' = IF idx < ZipLen(video_clips, audio_clips, narrations)
                              THEN "scenes" ELSE "render"
               /\ UNCHANGED <<asm_ret, asm_outcome>>
    /\ UNCHANGED <<video_clips, audio_clips, narrations, add_captions,
                   asm_closed, asm_out>>

\* What concatenate_videoclips and write_videofile can do: the first may
\* raise; the second may raise before it created the output file or after it
\* wrote part of it.
RenderResults == {"ok", "concat_raises", "write_raises_no_file",
                  "write_raises_partial_file"}

\* What is at output_path after the render.
OutputAfter(r) ==
    CASE r = "ok" -> "complete"
      [] r = "write_raises_partial_file" -> "partial"
      [] OTHER -> "absent"

\* The return taken after the render.
RenderOutcome(r) ==
    CASE r = "ok" -> "ok"
      [] r = "concat_raises" -> "concat_error"
      [] OTHER -> "write_error"

\* Lines 93-116: concatenate, write, close every processed clip and the
\* final video, return True; any exception returns False (lines 118-122).
AsmRender ==
    /\ asm_pc = "render"
    /\ \E r \in RenderResults :
         /\ asm_out' = OutputAfter(r)
         /\ asm_opened' = IF r = "concat_raises" THEN asm_opened
                          ELSE asm_opened \cup {<<"final", 0>>}
         /\ IF r = "ok"
              THEN /\ asm_closed' =
                        {<<"clip", i>> : i \in 1..Len(processed_clips)}
                            \cup {<<"final", 0>>}
                   /\ AsmExit("ok")
              ELSE /\ asm_closed' = asm_closed
                   /\ AsmExit(RenderOutcome(r))
    /\ UNCHANGED <<video_clips, audio_clips, narrations, add_captions,
                   processed_clips>>

AsmNext ==
    \/ AsmStart /\ UNCHANGED <<gv_vars, app_vars, wrap_vars,
                               enh_vars, bgm_vars>>
    \/ AsmScene /\ UNCHANGED <<gv_vars, app_vars, wrap_vars,
                               enh_vars, bgm_vars>>
    \/ AsmRender /\ UNCHANGED <<gv_vars, app_vars, wrap_vars,
                                enh_vars, bgm_vars>>

AsmCall == AsmInit /\ GVIdle /\ AppIdle /\ WrapIdle /\ EnhIdle /\ BgmIdle

SpecAsm == AsmCall /\ [][AsmNext]_vars

----------------------------------------------------------------------------
(* The endpoints of src/app.py: generate_script and create_video. *)

\* A field of a scene that is not a string (JSON null, a number, a list).
Null == "<null>"

\* str.strip(), on the texts the model tells apart.
Strip(text) == IF text = " " THEN "" ELSE text

\* What the generative backend may put in a scene's "narration" and
\* "visuals" (a missing key reads as "") and "scene_number" (0: missing).
FieldValues == Texts \cup {Null}
SuppliedNumbers == {0, 1, 2}

\* The elements of a "scenes" list: objects, and anything else.
Elements ==
    [kind : {"dict"}, scene_number : SuppliedNumbers,
     narration : FieldValues, visuals : FieldValues]
    \cup {[kind |-> "other", scene_number |-> 0, narration |-> "",
           visuals |-> ""]}

\* The answers of the generative backend, by what the handlers tell apart:
\*   "raises"        the API call raises
\*   "malformed"     the content is not JSON (json.loads raises)
\*   "not_object"    JSON, but a list rather than an object
\*   "no_scenes"     an object without "scenes"
\*   "scenes_falsy"  "scenes" is null, "", 0 or {}
\*   "scenes_truthy" "scenes" is a non-empty string or object
\*   "list"          "scenes" is a list, of the items given
LLMShapes == {"raises", "malformed", "not_object", "no_scenes",
              "scenes_falsy", "scenes_truthy", "list"}

\* The lists a "scenes" field of shape sh and length n may hold.
LLMItems(sh, n) == IF sh = "list" THEN [1..n -> Elements] ELSE {<<>>}

LLMLengths(sh) == IF sh = "list" THEN 0..MaxScenes ELSE {0}

\* What is remembered of the answer: its shape, the length of its list, and
\* whether the scene numbers it supplied were already 1..n in order.
Seen(r) ==
    [shape |-> r.shape, n |-> Len(r.items),
     numbered |-> \A i \in 1..Len(r.items) : r.items[i].scene_number = i]

\* The renumbering with enumerate(scenes), which counts from 0.
Renumber_FromZero(items) ==
    [i \in 1..Len(items) |->
        [scene_number |-> i - 1, narration |-> items[i].narration,
         visuals |-> items[i].visuals]]

\* for idx, scene in enumerate(scenes, 1): scene['scene_number'] = idx
Renumber(items) ==
    [i \in 1..Len(items) |->
        [scene_number |-> i, narration |-> items[i].narration,
         visuals |-> items[i].visuals]]

AllDicts(items) == \A i \in 1..Len(items) : items[i].kind = "dict"

ItemAssignment == "'str' object does not support item assignment"
NoStrip == "'NoneType' object has no attribute 'strip'"

\* generate_script, lines 122-139: parse, validate, renumber.
ParseGS(r) ==
    LET fail(prefix, detail) ==
            [result |-> "error", error |-> <<prefix, detail>>, scenes |-> <<>>]
    IN CASE r.shape = "raises" ->
              fail("Script generation failed: ", "<api error>")
         [] r.shape = "malformed" ->
              fail("Failed to parse script response: ", "<JSONDecodeError>")
         [] r.shape \in {"not_object", "no_scenes", "scenes_falsy",
                         "scenes_truthy"} ->
              fail("Script generation failed: ",
                   "Invalid script structure returned from API")
         [] r.shape = "list" /\ ~AllDicts(r.items) ->
              fail("Script generation failed: ", ItemAssignment)
         [] OTHER ->
              [result |-> "ok", error |-> <<"", "">>,
               scenes |-> Renumber(r.items)]

\* The parsing of create_video with a stock scene put in place of an answer
\* that is not JSON.
ParseCV_FallbackScript(r) ==
    IF r.shape = "malformed"
      THEN [result |-> "ok", error |-> <<"", "">>,
            scenes |-> <<[scene_number |-> 1, narration |-> "n",
                          visuals |-> "n"]>>]
    ELSE IF r.shape = "list" /\ r.items # <<>> /\ AllDicts(r.items)
      THEN [result |-> "ok", error |-> <<"", "">>,
            scenes |-> Renumber(r.items)]
    ELSE [result |-> "raise",
          error |-> <<"Video creation failed: ", "<error>">>,
          scenes |-> <<>>]

\* create_video, lines 204-213: parse, read "scenes", renumber.
ParseCV(r) ==
    LET raise(detail) ==
            [result |-> "raise", error |-> <<"Video creation failed: ", detail>>,
             scenes |-> <<>>]
        empty == [result |-> "empty",
                  error |-> <<"Failed to generate valid script", "">>,
                  scenes |-> <<>>]
    IN CASE r.shape = "raises" -> raise("<api error>")
         [] r.shape = "malformed" -> raise("<JSONDecodeError>")
         [] r.shape = "not_object" ->
              raise("'list' object has no attribute 'get'")
         [] r.shape \in {"no_scenes", "scenes_falsy"} -> empty
         [] r.shape = "scenes_truthy" -> raise(ItemAssignment)
         [] r.shape = "list" /\ r.items = <<>> -> empty
         [] r.shape = "list" /\ ~AllDicts(r.items) -> raise(ItemAssignment)
         [] OTHER ->
              [result |-> "ok", error |-> <<"", "">>,
               scenes |-> Renumber(r.items)]

ErrorResponse(code, error) ==
    [code |-> code, error |-> error, video_url |-> "", scenes_count |-> 0,
     script |-> FALSE]

\* The handler returns the error: nothing else follows.
CVFail(stage, error) ==
    /\ cv_pc' = "done"
    /\ cv_failed' = stage
    /\ response' = ErrorResponse(500, error)

\* POST /generate-script, the whole handler.
GenerateScript ==
    /\ cv_pc = "idle"
    /\ endpoint' = "generate_script"
    /\ cv_pc' = "done"
    /\ \E topic \in Texts :
         IF Strip(topic) = ""
           THEN /\ response' = ErrorResponse(400, <<"Topic is required", "">>)
                /\ cv_failed' = "request"
                /\ UNCHANGED <<llm, scenes, cv_stages>>
           ELSE \E sh \in LLMShapes : \E n \in LLMLengths(sh) :
                \E it \in LLMItems(sh, n) :
                LET r == [shape |-> sh, items |-> it]
                    p == ParseGS(r) IN
                /\ llm' = Seen(r)
                /\ cv_stages' = <<"script">>
                /\ scenes' = p.scenes
                /\ IF p.result = "ok"
                     THEN /\ cv_failed' = "none"
                          /\ response' = [code |-> 200, error |-> <<"", "">>,
                                          video_url |-> "", scenes_count |-> 0,
                                          script |-> TRUE]
                     ELSE /\ cv_failed' = "script"
                          /\ response' = ErrorResponse(500, p.error)
    /\ UNCHANGED <<audio_files, video_files, cv_i, synth_calls, disk>>

\* POST /create-video, lines 152-215: the request and the script stage.
CVScript ==
    /\ cv_pc = "idle"
    /\ endpoint' = "create_video"
    /\ \E topic \in Texts :
         IF Strip(topic) = ""
           THEN /\ cv_pc' = "done"
                /\ response' = ErrorResponse(400, <<"Topic is required", "">>)
                /\ cv_failed' = "request"
                /\ UNCHANGED <<llm, scenes, cv_stages>>
           ELSE \E sh \in LLMShapes : \E n \in LLMLengths(sh) :
                \E it \in LLMItems(sh, n) :
                LET r == [shape |-> sh, items |-> it]
                    p == ParseCV(r) IN
                /\ llm' = Seen(r)
                /\ cv_stages' = <<"script">>
                /\ scenes' = p.scenes
                /\ IF p.result = "ok"
                     THEN /\ cv_pc' = "narration"
                          /\ UNCHANGED <<cv_failed, response>>
                     ELSE CVFail("script", p.error)
    /\ UNCHANGED <<audio_files, video_files, cv_i, synth_calls, disk>>

\* generate_scene_voiceovers, lines 68-94, one iteration of the loop, and
\* after the last one the return to create_video (lines 227-230).
CVNarrationScene ==
    /\ cv_pc = "narration"
    /\ cv_stages' = IF cv_i = 0 THEN Append(cv_stages, "narration")
                    ELSE cv_stages
    /\ LET i == cv_i + 1
           scene == scenes[i]
           \* the loop goes on, or ends with the list `files`
           Continue(files) ==
               IF i < Len(scenes)
                 THEN /\ cv_i' = i /\ cv_pc' = "narration"
                      /\ audio_files' = files
                      /\ UNCHANGED <<cv_failed, response>>
               ELSE IF files = <<>>
                 THEN /\ cv_i' = i /\ audio_files' = files
                      /\ CVFail("narration",
                                <<"Failed to generate voiceovers", "">>)
               ELSE /\ cv_i' = 0 /\ cv_pc' = "video"
                    /\ audio_files' = files
                    /\ UNCHANGED <<cv_failed, response>>
       IN IF scene.narration = Null
            THEN /\ cv_i' = i
                 /\ CVFail("narration", <<"Video creation failed: ", NoStrip>>)
                 /\ UNCHANGED <<audio_files, synth_calls, disk>>
          ELSE IF Strip(scene.narration) = ""
            THEN Continue(audio_files) /\ UNCHANGED <<synth_calls, disk>>
          ELSE \E saved \in BOOLEAN :
                 /\ synth_calls' = Append(synth_calls,
                        [stage |-> "narration", scene |-> scene.scene_number,
                         ok |-> saved])
                 /\ IF saved
                      THEN /\ disk' = [disk EXCEPT !.audio =
                                          @ \cup {scene.scene_number}]
                           /\ Continue(Append(audio_files, scene.scene_number))
                      ELSE /\ disk' = disk
                           /\ cv_i' = i /\ audio_files' = <<>>
                           /\ CVFail("narration",
                                     <<"Failed to generate voiceovers", "">>)
    /\ UNCHANGED <<endpoint, llm, scenes, video_files>>

\* generate_videos_for_script (lines 252-259, before the first scene) and
\* generate_scene_videos, lines 171-203, one iteration of the loop, and after
\* the last one the return to create_video (lines 243-246). The call of
\* generate_video is one step: its outcome is one of GVOutcomes.
CVVideoScene ==
    /\ cv_pc = "video"
    /\ cv_stages' = IF cv_i = 0 THEN Append(cv_stages, "video") ELSE cv_stages
    /\ LET i == cv_i + 1
           scene == scenes[i]
           Continue(files) ==
               IF i < Len(scenes)
                 THEN /\ cv_i' = i /\ cv_pc' = "video"
                      /\ video_files' = files
                      /\ UNCHANGED <<cv_failed, response>>
               ELSE IF files = <<>>
                 THEN /\ cv_i' = i /\ video_files' = files
                      /\ CVFail("video",
                                <<"Failed to generate video clips", "">>)
               ELSE /\ cv_i' = 0 /\ cv_pc' = "assembly"
                    /\ video_files' = files
                    /\ UNCHANGED <<cv_failed, response>>
       IN \E api_key \in (IF cv_i = 0 THEN BOOLEAN ELSE {TRUE}) :
          IF ~api_key
            THEN /\ cv_i' = cv_i
                 /\ CVFail("video", <<"Video creation failed: ",
                      "RunwayML API key not provided and not found in environment">>)
                 /\ UNCHANGED <<video_files, synth_calls, disk>>
          ELSE IF scene.visuals = Null
            THEN /\ cv_i' = i
                 /\ CVFail("video", <<"Video creation failed: ", NoStrip>>)
                 /\ UNCHANGED <<video_files, synth_calls, disk>>
          ELSE IF Strip(scene.visuals) = ""
            THEN Continue(video_files) /\ UNCHANGED <<synth_calls, disk>>
          ELSE \E outcome \in GVOutcomes :
                 LET success == GVReturn(outcome) = "True" IN
                 /\ synth_calls' = Append(synth_calls,
                        [stage |-> "video", scene |-> scene.scene_number,
                         ok |-> success])
                 /\ IF success
                      THEN /\ disk' = [disk EXCEPT !.video =
                                          @ \cup {scene.scene_number}]
                           /\ Continue(Append(video_files, scene.scene_number))
                      ELSE /\ disk' = disk
                           /\ cv_i' = i /\ video_files' = <<>>
                           /\ CVFail("video",
                                     <<"Failed to generate video clips", "">>)
    /\ UNCHANGED <<endpoint, llm, scenes, audio_files>>

\* The narrations of the scenes that have one: the blank ones left out, as
\* the narration batch leaves them out.
NarrationsOf_NonBlank(scs) ==
    LET texts == [i \in 1..Len(scs) |-> scs[i].narration] IN
      SelectSeq(texts, LAMBDA t : t = Null \/ Strip(t) # "")

\* narrations = [scene.get('narration', '') for scene in scenes]
NarrationsOf(scs) == [i \in 1..Len(scs) |-> scs[i].narration]

\* create_video, lines 248-284: the call of assemble_final_video and the
\* response. The call is one step: the precondition as assemble_video checks
\* it, then either a load raises or the render ends in one of RenderResults.
CVAssemble ==
    /\ cv_pc = "assembly"
    /\ cv_stages' = Append(cv_stages, "assembly")
    /\ video_clips' = video_files
    /\ audio_clips' = audio_files
    /\ narrations' = NarrationsOf(scenes)
    /\ add_captions' = TRUE
    /\ asm_pc' = "done"
    /\ LET c == AsmPrecondition(video_files, audio_files, narrations') IN
         \E loads \in BOOLEAN, r \in RenderResults :
           /\ asm_outcome' = IF c # "ok" THEN c
                             ELSE IF ~loads THEN "load_error"
                             ELSE RenderOutcome(r)
           /\ asm_out' = IF c = "ok" /\ loads THEN OutputAfter(r) ELSE "absent"
    /\ asm_ret' = IF asm_outcome' = "ok" THEN "True" ELSE "False"
    /\ IF asm_ret' = "True"
         THEN /\ cv_pc' = "done"
              /\ cv_failed' = cv_failed
              /\ response' = [code |-> 200, error |-> <<"", "">>,
                              video_url |-> "final",
                              scenes_count |-> Len(scenes), script |-> FALSE]
         ELSE CVFail("assembly", <<"Failed to assemble final video", "">>)
    /\ UNCHANGED <<endpoint, llm, scenes, audio_files, video_files, cv_i,
                   synth_calls, disk, processed_clips, asm_opened, asm_closed>>

Init == AppIdle /\ GVIdle /\ AsmIdle /\ WrapIdle /\ EnhIdle /\ BgmIdle

Next ==
    \/ GenerateScript /\ UNCHANGED <<gv_vars, asm_vars, wrap_vars,
                                     enh_vars, bgm_vars>>
    \/ CVScript /\ UNCHANGED <<gv_vars, asm_vars, wrap_vars,
                               enh_vars, bgm_vars>>
    \/ CVNarrationScene /\ UNCHANGED <<gv_vars, asm_vars, wrap_vars,
                                       enh_vars, bgm_vars>>
    \/ CVVideoScene /\ UNCHANGED <<gv_vars, asm_vars, wrap_vars,
                                   enh_vars, bgm_vars>>
    \/ CVAssemble /\ UNCHANGED <<gv_vars, wrap_vars, enh_vars, bgm_vars>>

Spec == Init /\ [][Next]_vars

----------------------------------------------------------------------------
(* Properties of generate_video, under SpecGV. *)

\* C1: when the submission returned a task id, status requests 1..k-1 were
\* each answered RUNNING, request k is answered SUCCEEDED with a URL and the
\* download answers 200, the call returns True, having made exactly k status
\* requests; no status request follows the k-th.
C1_SuccessAfterExactlyKPolls ==
    (gv_stub.succ_at # 0 /\ gv_stub.prefix_running /\ gv_stub.dl = "ok") =>
        /\ gv_reqs.status = gv_stub.succ_at
        /\ gv_pc \in {"download", "done"}
        /\ gv_pc = "done" =>
              (gv_ret = "True" /\ gv_outcome = "saved" /\ gv_reqs.download = 1)

C1_Witness ==
    /\ gv_pc = "done" /\ gv_ret = "True"
    /\ gv_stub.succ_at = 7 /\ gv_stub.prefix_running /\ gv_stub.dl = "ok"
    /\ gv_reqs.status = 7

\* C2: when every status request is answered RUNNING, the call ends with the
\* timeout return after exactly max_attempts (120) status requests, not
\* before and not after, and makes no download request.
C2_TimeoutAfterExactlyCeiling ==
    (gv_reqs.status >= 1 /\ gv_stub.prefix_running /\ gv_stub.succ_at = 0) =>
        /\ gv_reqs.status <= max_attempts
        /\ gv_reqs.download = 0 /\ gv_file = "absent"
        /\ (gv_pc = "done") <=> (gv_reqs.status = max_attempts)
        /\ gv_pc = "done" => (gv_outcome = "timeout" /\ gv_ret = "False")
        /\ gv_pc # "done" => gv_pc = "poll"

C2_Witness ==
    /\ gv_pc = "done" /\ gv_outcome = "timeout" /\ gv_reqs.status = 120
    /\ gv_stub.prefix_running /\ gv_stub.succ_at = 0 /\ gv_last = "RUNNING"

\* C3 (as claimed): a transport error on status request i below the ceiling,
\* be it a non-200 answer or an exception raised by the request, does not
\* end the call: the loop goes on to request i+1; and a SUCCEEDED answer
\* later on still yields success.
TransportErrors == {"http_error", "exception"}

C3_PollTransportErrorIsTransient ==
    /\ (gv_last \in TransportErrors /\ gv_reqs.status < max_attempts) =>
          (gv_pc = "poll" /\ gv_ret = "none")
    /\ (gv_pc = "done" /\ gv_stub.succ_at # 0 /\ gv_stub.dl = "ok") =>
          gv_ret = "True"

\* C4 (as claimed): the duration submitted is the smallest duration the
\* backend supports that is >= the requested hint, and never below the hint
\* (hint 4 with {5, 8, 10} gives 5).
SmallestSupportedAtLeast(d, supported) ==
    CHOOSE s \in supported : s >= d /\ \A t \in supported : t >= d => s <= t

C4_DurationRoundsUp ==
    gv_sent # 0 =>
        /\ gv_sent >= gv_hint
        /\ gv_sent = SmallestSupportedAtLeast(gv_hint, Gen45Durations)


----------------------------------------------------------------------------
(* Properties of assemble_video, under SpecAsm. *)

\* C6: when the three lists are not all of the same length, or are empty,
\* assemble_video returns False, and it has then opened no media file and
\* written nothing at the output path.
BadBundle ==
    \/ Len(video_clips) # Len(audio_clips)
    \/ Len(video_clips) # Len(narrations)
    \/ Len(audio_clips) # Len(narrations)
    \/ Len(video_clips) = 0

C6_BadBundleFailsBeforeAnyIO ==
    (BadBundle /\ asm_pc \notin {"idle", "start"}) =>
        /\ asm_pc = "done" /\ asm_ret = "False"
        /\ asm_outcome \in {"mismatch", "empty"}
        /\ asm_opened = {} /\ processed_clips = <<>>
        /\ asm_out = "absent"

C6_Witness ==
    /\ asm_pc = "done" /\ asm_ret = "False" /\ asm_outcome = "mismatch"
    /\ Len(video_clips) = 2 /\ Len(audio_clips) = 2 /\ Len(narrations) = 1

\* C7: the duration of every trimmed scene video is the smaller of the
\* video's and the audio's duration: the audio's when the audio is not
\* longer than the video, else the video's own; it is never longer than the
\* video was.
C7_TrimToShorter ==
    \A i \in 1..Len(processed_clips) :
        LET c == processed_clips[i] IN
          /\ c.audio_duration <= c.video_duration =>
                c.duration = c.audio_duration
          /\ c.audio_duration > c.video_duration =>
                c.duration = c.video_duration
          /\ c.duration <= c.video_duration

C7_Witness ==
    /\ asm_pc = "done" /\ asm_ret = "True" /\ Len(processed_clips) = 2
    /\ processed_clips[1].audio_duration < processed_clips[1].video_duration
    /\ processed_clips[1].duration = processed_clips[1].audio_duration
    /\ processed_clips[2].audio_duration > processed_clips[2].video_duration
    /\ processed_clips[2].duration = processed_clips[2].video_duration

----------------------------------------------------------------------------
(* Properties of the endpoints, under Spec. *)

StageOrder == <<"script", "narration", "video", "assembly">>

\* C5: whenever generate_script or create_video has a scene list from an
\* answer that passed its validation, the list has the answer's length and
\* its scene_number values are 1..len(scenes) in positional order, whatever
\* numbers (missing, duplicated, out of order) the backend supplied.
HasScript ==
    \/ response.script
    \/ endpoint = "create_video" /\ cv_pc \in {"narration", "video", "assembly"}
    \/ response.video_url # ""

C5_ScenesNumberedByPosition ==
    /\ \A i \in 1..Len(scenes) : scenes[i].scene_number = i
    /\ HasScript => (llm.shape = "list" /\ Len(scenes) = llm.n)

C5_Witness ==
    /\ endpoint = "generate_script" /\ response.code = 200 /\ response.script
    /\ Len(scenes) = 2 /\ ~llm.numbered
    /\ scenes[1].scene_number = 1 /\ scenes[2].scene_number = 2

\* C8 (as claimed), for a run in which nothing raised, each batch made at
\* least one synthesis call and the media operations of the assembly did not
\* fail: with a script of at least one scene, if every narration and video
\* synthesis call create_video made succeeded, there is exactly one final
\* file and the response reports scenes_count = len(scenes).
CallsOf(stage) ==
    {k \in 1..Len(synth_calls) : synth_calls[k].stage = stage}

C8_AllSynthesisOkGivesOneArtifact ==
    ( /\ endpoint = "create_video" /\ cv_pc = "done"
      /\ Len(scenes) >= 1
      /\ response.error[1] # "Video creation failed: "
      /\ CallsOf("narration") # {} /\ CallsOf("video") # {}
      /\ \A k \in 1..Len(synth_calls) : synth_calls[k].ok
      /\ asm_outcome \notin {"load_error", "concat_error", "write_error"} )
    => ( /\ asm_out = "complete"
         /\ response.code = 200 /\ response.video_url # ""
         /\ response.scenes_count = Len(scenes) )

\* The first half of C9, which the code satisfies: the stages are invoked at
\* most once each, in the order script, narration batch, video batch,
\* assembly, a stage only after every earlier one returned a non-empty
\* result, and a failed stage is the last one invoked.
IsPrefix(p, q) == Len(p) <= Len(q) /\ \A i \in 1..Len(p) : p[i] = q[i]

InvokedStages == {cv_stages[i] : i \in 1..Len(cv_stages)}

StagesInOrder ==
    /\ IsPrefix(cv_stages, StageOrder)
    /\ "narration" \in InvokedStages => scenes # <<>>
    /\ "video" \in InvokedStages => audio_files # <<>>
    /\ "assembly" \in InvokedStages => video_files # <<>>
    /\ cv_failed \in InvokedStages => cv_failed = cv_stages[Len(cv_stages)]

\* The stage an error message names. The message of the catch-all handler is
\* its fixed prefix and the text of the exception; the text "'NoneType'
\* object has no attribute 'strip'" comes from the narration batch and from
\* the video batch alike, so whichever of the two is read into it, the other
\* is misnamed.
StageNamedBy(error) ==
    CASE error[1] = "Failed to generate valid script" -> "script"
      [] error[1] = "Failed to generate voiceovers" -> "narration"
      [] error[1] = "Failed to generate video clips" -> "video"
      [] error[1] = "Failed to assemble final video" -> "assembly"
      [] error[1] = "Video creation failed: " /\ error[2] = NoStrip ->
           "narration"
      [] error[1] = "Video creation failed: " /\ error[2] =
           "RunwayML API key not provided and not found in environment" ->
           "video"
      [] error[1] = "Video creation failed: " -> "script"
      [] OTHER -> "none"

\* C9 (as claimed): the stages run at most once each and in order, each only
\* after the earlier ones succeeded, and when a stage fails the response is
\* an error whose message identifies that stage, distinctly per stage.
C9_StagesInOrderWithStageMessage ==
    /\ StagesInOrder
    /\ (endpoint = "create_video" /\ cv_failed \in InvokedStages) =>
          /\ response.code = 500
          /\ StageNamedBy(response.error) = cv_failed

\* C10 (as claimed): the response of create_video holds a video URL only
\* when all four stages succeeded and assembly returned True; on any failure
\* the response is one error without a path, and no partly assembled final
\* file is left at the output path.
C10_NoPartialArtifact ==
    /\ response.video_url # "" =>
          /\ cv_stages = StageOrder /\ cv_failed = "none"
          /\ asm_ret = "True" /\ asm_out = "complete"
    /\ (endpoint = "create_video" /\ cv_pc = "done" /\ response.code # 200) =>
          /\ response.error # <<"", "">>
          /\ response.video_url = ""
          /\ asm_out # "partial"

\* The part of C11 the code satisfies: generate_scene_videos calls
\* generate_video for the scenes in list order, and a call that fails is the
\* last one made: the batch returns the empty list at once.
VideoBatchReturned ==
    /\ endpoint = "create_video"
    /\ \/ cv_pc = "assembly"
       \/ cv_pc = "done" /\ cv_failed = "assembly"
       \/ cv_pc = "done" /\ response.video_url # ""
       \/ cv_pc = "done" /\ cv_failed = "video"
            /\ response.error[1] = "Failed to generate video clips"

C11_FirstFailureEndsBatch ==
    /\ \A k, l \in CallsOf("video") :
          k < l => synth_calls[k].scene < synth_calls[l].scene
    /\ \A k \in CallsOf("video") :
          ~synth_calls[k].ok =>
              /\ k = Len(synth_calls)
              /\ video_files = <<>>
              /\ cv_pc = "done" /\ cv_failed = "video"

\* C11 (as claimed): generate_scene_videos handles the scenes in list order;
\* at the first scene whose generate_video fails it returns the empty list
\* and makes no request for a later scene; so the list the caller receives
\* is never partial: it is empty, or it has a video for every scene.
C11_NoPartialVideoSet ==
    /\ C11_FirstFailureEndsBatch
    /\ VideoBatchReturned =>
          \/ video_files = <<>>
          \/ video_files = [i \in 1..Len(scenes) |-> i]

\* The narration batch has returned its list to create_video.
NarrationBatchReturned ==
    /\ endpoint = "create_video"
    /\ \/ cv_pc \in {"video", "assembly"}
       \/ cv_pc = "done" /\ cv_failed \in {"video", "assembly"}
       \/ cv_pc = "done" /\ response.video_url # ""
       \/ cv_pc = "done" /\ cv_failed = "narration"
            /\ response.error[1] = "Failed to generate voiceovers"

\* The part of C12 the code satisfies: a narration synthesis that fails is
\* the last call of the batch, which returns the empty list; and the paths
\* returned are in scene order.
C12_FailureEmptiesBatch ==
    /\ \A k \in CallsOf("narration") :
          ~synth_calls[k].ok =>
              /\ k = Len(synth_calls)
              /\ audio_files = <<>>
              /\ cv_pc = "done" /\ cv_failed = "narration"
    /\ \A i, j \in 1..Len(audio_files) :
          i < j => audio_files[i] < audio_files[j]

\* C12 (as claimed): the list generate_scene_voiceovers returns is empty, or
\* holds exactly one audio path for every scene of the script, in scene
\* order; when the synthesis of any scene fails, the list is empty.
C12_AllOrNothingVoiceovers ==
    /\ C12_FailureEmptiesBatch
    /\ NarrationBatchReturned =>
          \/ audio_files = <<>>
          \/ audio_files = [i \in 1..Len(scenes) |-> i]

\* The lists create_video holds after both batches are not aligned with the
\* scenes: they do not have one entry for every scene.
Misaligned ==
    \/ Len(audio_files) # Len(scenes)
    \/ Len(video_files) # Len(scenes)

StageMessages == {"Failed to generate valid script",
                  "Failed to generate voiceovers",
                  "Failed to generate video clips",
                  "Failed to assemble final video"}

\* C13 (as claimed): create_video verifies the alignment before the
\* assembly: assemble_final_video is never called with lists of unequal
\* lengths, and a mismatch ends the request with an error that is none of
\* the script, narration, video and assembly failures.
C13_AlignmentCheckedBeforeAssembly ==
    /\ "assembly" \in InvokedStages =>
          /\ Len(video_clips) = Len(audio_clips)
          /\ Len(video_clips) = Len(narrations)
    /\ ( /\ endpoint = "create_video" /\ cv_pc = "done"
         /\ VideoBatchReturned /\ video_files # <<>> /\ Misaligned ) =>
          /\ response.code = 500
          /\ response.error[1] \notin StageMessages

----------------------------------------------------------------------------
(* More properties of assemble_video, under SpecAsm. *)

\* C14: with captions enabled, a caption that fails to render for scene i
\* leaves scene i in the assembly without a caption and does not end the
\* call; whether any scene j receives its caption depends on scene j alone:
\* on its narration and on whether its own caption renders.
C14_CaptionFailureIsIsolated ==
    /\ asm_outcome # "caption_error"
    /\ \A j \in 1..Len(processed_clips) :
          LET c == processed_clips[j] IN
            /\ c.caption_tried <=> (add_captions /\ Truthy(narrations[j]))
            /\ c.captioned <=> (c.caption_tried /\ c.caption_renders)
            /\ (c.caption_tried /\ ~c.caption_renders) =>
                  /\ ~c.captioned
                  /\ c.video = video_clips[j] /\ c.audio = audio_clips[j]
                  /\ asm_pc = "done" =>
                        asm_outcome \in {"ok", "load_error", "concat_error",
                                         "write_error"}

C14_Witness ==
    /\ asm_pc = "done" /\ asm_ret = "True" /\ add_captions
    /\ Len(processed_clips) = 3
    /\ processed_clips[1].captioned
    /\ processed_clips[2].caption_tried /\ ~processed_clips[2].captioned
    /\ processed_clips[3].captioned

\* The handles a close() call releases, read in the code's favour: closing
\* the processed clip of scene i closes the video and the audio file it was
\* made from and its caption composite.
ReleasedBy(closed) ==
    {h \in asm_opened :
        \/ h[1] = "final" /\ <<"final", 0>> \in closed
        \/ h[1] # "final" /\ <<"clip", h[2]>> \in closed}

\* C15 (as claimed): at every return of assemble_video, the successful one
\* and every failing one, every media handle the call opened has been
\* closed.
C15_EveryHandleClosedAtReturn ==
    asm_pc = "done" => asm_opened \subseteq ReleasedBy(asm_closed)

\* C18: of the n scenes of a call, the clip at position 1 and no other has
\* the fade-in, the clip at position n and no other has the fade-out, and
\* the clips at positions 2..n-1 have neither; for n = 1 the one clip has
\* both.
C18_FadesOnlyAtEnds ==
    LET n == Len(video_clips) IN
    /\ \A i \in 1..Len(processed_clips) :
          LET c == processed_clips[i] IN
            /\ c.fadein <=> (i = 1)
            /\ c.fadeout <=> (i = n)
            /\ (1 < i /\ i < n) => (~c.fadein /\ ~c.fadeout)
    /\ (n = 1 /\ Len(processed_clips) = 1) =>
          (processed_clips[1].fadein /\ processed_clips[1].fadeout)
    /\ asm_ret = "True" => Len(processed_clips) = n

C18_Witness ==
    /\ asm_pc = "done" /\ asm_ret = "True" /\ Len(processed_clips) = 3
    /\ processed_clips[1].fadein /\ ~processed_clips[1].fadeout
    /\ ~processed_clips[2].fadein /\ ~processed_clips[2].fadeout
    /\ ~processed_clips[3].fadein /\ processed_clips[3].fadeout

----------------------------------------------------------------------------
(* More properties of generate_video, under SpecGV. *)

\* C16: a status request answered FAILED ends the call at once with the
\* return False: the call is over in the state the answer leaves (no step
\* is possible from there, so no status request follows), no download
\* request was made and no file was written.
C16_FailedStatusEndsCall ==
    gv_last = "FAILED" =>
        /\ gv_pc = "done" /\ gv_ret = "False" /\ gv_outcome = "failed"
        /\ gv_reqs.download = 0
        /\ gv_file = "absent"
        /\ ~ENABLED GVNext

C16_Witness ==
    /\ gv_pc = "done" /\ gv_last = "FAILED" /\ gv_ret = "False"
    /\ gv_reqs.status = 3 /\ gv_stub.prefix_running = FALSE
    /\ gv_reqs.download = 0 /\ gv_file = "absent"

\* C17: a call makes exactly one submission request and at most one
\* download request. A submission that fails (an answer other than 200/201,
\* an answer without a task id, an exception of the transport) ends the call
\* with False before any status or download request; a download that fails
\* ends the call with False, no file written and no request after it.
FailedSubmissions == {"http_error", "no_id", "exception"}

C17_OneSubmitOneDownloadNoRetry ==
    /\ gv_reqs.submit = (IF gv_pc \in {"idle", "submit"} THEN 0 ELSE 1)
    /\ gv_reqs.download <= 1
    /\ gv_stub.sub \in FailedSubmissions =>
          /\ gv_pc = "done" /\ gv_ret = "False"
          /\ gv_reqs.status = 0 /\ gv_reqs.download = 0
          /\ gv_file = "absent"
    /\ (gv_reqs.download = 1 /\ gv_stub.dl # "ok") =>
          /\ gv_pc = "done" /\ gv_ret = "False"
          /\ gv_outcome \in {"download_error", "exception"}
          /\ gv_file = "absent"
          /\ gv_reqs.status = gv_stub.succ_at
    /\ gv_reqs.download = 1 => (gv_pc = "done" /\ gv_stub.succ_at # 0)

C17_Witness ==
    /\ gv_pc = "done" /\ gv_ret = "False" /\ gv_outcome = "download_error"
    /\ gv_reqs = [submit |-> 1, status |-> 2, download |-> 1]
    /\ gv_stub.dl = "http_error" /\ gv_file = "absent"

----------------------------------------------------------------------------
(* Properties of the word wrapping of _add_caption, under SpecWrap. *)

\* C19 (as claimed): every caption line the word wrapping produces is at
\* most max_chars_per_line (30) characters long.
C19_EveryLineWithinBudget ==
    \A k \in 1..Len(lines) : JoinLen(words, lines[k]) <= max_chars_per_line

\* C19 (amended): every caption line of two or more words is at most 30
\* characters long; a line longer than 30 characters is one word that is
\* itself longer than 30 characters, on a line of its own.
C19_LineWithinBudgetOrOneLongWord ==
    \A k \in 1..Len(lines) :
        /\ lines[k] # <<>>
        /\ Len(lines[k]) >= 2 => JoinLen(words, lines[k]) <= max_chars_per_line
        /\ JoinLen(words, lines[k]) > max_chars_per_line =>
              /\ Len(lines[k]) = 1
              /\ words[lines[k][1]] > max_chars_per_line

C19_Witness ==
    /\ wrap_pc = "done" /\ Len(lines) = 2
    /\ Len(lines[1]) = 2 /\ JoinLen(words, lines[1]) = 30
    /\ Len(lines[2]) = 1 /\ JoinLen(words, lines[2]) = 31

\* The lines read in order, one word after the other.
RECURSIVE Flatten(_)
Flatten(ls) == IF ls = <<>> THEN <<>> ELSE Head(ls) \o Flatten(Tail(ls))

\* C20: the caption lines, read in order, hold exactly the words of the
\* narration in their original order, none dropped, duplicated or
\* reordered; a word is always within one line (a line is made of whole
\* words only). During the loop the same holds of the words taken so far,
\* the line being filled included.
C20_WordsPreservedInOrder ==
    /\ Flatten(lines) \o (IF wrap_pc = "done" THEN <<>> ELSE current_line)
          = [i \in 1..wrap_i |-> i]
    /\ wrap_pc = "done" => Flatten(lines) = [i \in 1..Len(words) |-> i]
    /\ \A k \in 1..Len(lines) : lines[k] # <<>>

C20_Witness ==
    /\ wrap_pc = "done" /\ Len(words) = 4 /\ Len(lines) = 3
    /\ lines = <<<<1>>, <<2, 3>>, <<4>>>>
    /\ words[1] > max_chars_per_line

----------------------------------------------------------------------------
(* More properties of the endpoints, under Spec. *)

\* C21 (as claimed): an empty script is a hard failure: whenever
\* generate_script answers 200 with a script, or create_video goes on with a
\* script or answers with a video, the scene list has at least one scene.
C21_NoEmptyScriptReturned ==
    HasScript => Len(scenes) >= 1

\* The answers that are not a well-formed object with a "scenes" list: not
\* JSON, JSON that is not an object, an object without "scenes", and an
\* object whose "scenes" is of another type.
NotAScript == {"malformed", "not_object", "no_scenes", "scenes_falsy",
               "scenes_truthy"}

\* C22: when the generative answer is not a well-formed object with a list
\* in "scenes", generate_script and create_video both answer with an error,
\* and create_video has invoked no narration, video or assembly stage.
C22_MalformedAnswerFails ==
    llm.shape \in NotAScript =>
        /\ cv_pc = "done"
        /\ response.code = 500 /\ response.error # <<"", "">>
        /\ ~response.script /\ response.video_url = ""
        /\ cv_failed = "script"
        /\ cv_stages = <<"script">>
        /\ synth_calls = <<>> /\ audio_files = <<>> /\ video_files = <<>>
        /\ disk = [audio |-> {}, video |-> {}]
        /\ asm_pc = "idle"

C22_Witness ==
    /\ endpoint = "create_video" /\ cv_pc = "done"
    /\ llm.shape = "scenes_truthy"
    /\ response.code = 500 /\ cv_stages = <<"script">>

----------------------------------------------------------------------------
(* Properties of _enhance_video_prompt, under SpecEnh. *)

\* C23: the result of _enhance_video_prompt has the caller's prompt as an
\* unchanged prefix; at most two descriptors are appended, each from the
\* fixed vocabulary and each not mentioned by the prompt in any case of
\* letters; a prompt of 200 characters or more, or one that mentions every
\* descriptor, is returned unchanged.
C23_EnhancementIsConservative ==
    enh_pc = "done" =>
        /\ enhanced.base = base_prompt
        /\ Len(enhanced.added) <= 2
        /\ \A k \in 1..Len(enhanced.added) :
              /\ enhanced.added[k] \in Vocabulary
              /\ base_prompt.mentions[enhanced.added[k]] = "no"
        /\ ( \/ base_prompt.len >= 200
             \/ \A e \in Vocabulary : base_prompt.mentions[e] # "no" ) =>
              enhanced.added = <<>>

C23_Witness ==
    /\ enh_pc = "done" /\ base_prompt.len = 199
    /\ base_prompt.mentions["cinematic"] = "upper"
    /\ base_prompt.mentions["high quality"] = "no"
    /\ base_prompt.mentions["smooth camera movement"] = "lower"
    /\ base_prompt.mentions["professional lighting"] = "no"
    /\ base_prompt.mentions["detailed"] = "no"
    /\ enhanced.added = <<"high quality", "professional lighting">>

----------------------------------------------------------------------------
(* Termination of generate_video, under SpecGVLive. *)

\* The answers to a status request after which the loop polls again.
NonTerminalAnswers == {"http_error", "PENDING", "RUNNING", "OTHER"}

\* The safety half of C24: never more than max_attempts status requests;
\* when request number max_attempts is answered without a terminal status
\* (as then were all before it), the call is over with the timeout failure.
C24_WithinCeiling ==
    /\ gv_reqs.status <= max_attempts
    /\ gv_attempt = gv_reqs.status
    /\ (gv_reqs.status = max_attempts /\ gv_last \in NonTerminalAnswers) =>
          (gv_pc = "done" /\ gv_outcome = "timeout" /\ gv_ret = "False")
    /\ gv_outcome = "timeout" =>
          (gv_reqs.status = max_attempts /\ gv_reqs.download = 0)

\* C24: whatever the backend answers to the status requests (non-200
\* responses, PENDING, RUNNING, unrecognised statuses, in any mix), the call
\* ends, after at most max_attempts (120) status requests; when the ceiling
\* is used up without a terminal status, it ends with the timeout failure.
C24_TerminatesWithinCeiling ==
    /\ []C24_WithinCeiling
    /\ <>(gv_pc = "done")

C24_Witness ==
    /\ gv_pc = "done" /\ gv_outcome = "timeout" /\ gv_ret = "False"
    /\ gv_reqs.status = 120 /\ gv_last = "OTHER"
    /\ ~gv_stub.prefix_running /\ gv_stub.succ_at = 0

----------------------------------------------------------------------------
(* Properties of the endpoints, continued, under Spec. *)

\* A text that is missing (read as ""), empty or only whitespace.
Blank(text) == text \in {"", " "}

\* C25 (as claimed): the script stage enforces non-empty content: no script
\* generate_script returns or create_video works with has a scene whose
\* narration or visuals is missing, empty or only whitespace.
C25_NoBlankSceneInScript ==
    HasScript =>
        \A i \in 1..Len(scenes) :
            ~Blank(scenes[i].narration) /\ ~Blank(scenes[i].visuals)

----------------------------------------------------------------------------
(* Properties of add_background_music, under SpecBgm. *)

\* The soundtrack a video with narration has before the call.
OwnTrack == [source |-> "narration", duration |-> bgm_args.video_duration,
             volume |-> 10]

\* C26 (as claimed): when the input video has a soundtrack of its own,
\* add_background_music does not put the music in: the soundtrack of the
\* output is the video's own audio, unchanged.
C26_ExistingAudioKept ==
    (bgm_pc = "done" /\ bgm_ret = "True"
        /\ bgm_args.video_audio = "narration") =>
        bgm_out = OwnTrack

----------------------------------------------------------------------------
(* The order of the requests of generate_video, under SpecGV. *)

----------------------------------------------------------------------------
(* The alignment of the bundle create_video assembles, under Spec. *)

\* assemble_final_video was called and the lists passed the length checks
\* of assemble_video.
BundlePassed ==
    /\ endpoint = "create_video" /\ asm_pc = "done"
    /\ asm_outcome \notin {"mismatch", "empty"}

\* C28: whenever the bundle of create_video passes the equal-length
\* precondition of assemble_video, the video at position i, the audio at
\* position i and the narration at position i are those of the scene at
\* position i (scene_number i), for every i: nothing is reordered or
\* shifted. (A script with a blank narration or blank visuals gives lists of
\* unequal lengths, which do not pass.)
C28_BundleAlignedWithScenes ==
    BundlePassed =>
        /\ Len(video_clips) = Len(scenes)
        /\ Len(audio_clips) = Len(scenes)
        /\ Len(narrations) = Len(scenes)
        /\ \A i \in 1..Len(scenes) :
              /\ scenes[i].scene_number = i
              /\ video_clips[i] = scenes[i].scene_number
              /\ audio_clips[i] = scenes[i].scene_number
              /\ narrations[i] = scenes[i].narration
              /\ ~Blank(scenes[i].narration) /\ ~Blank(scenes[i].visuals)

C28_Witness ==
    /\ BundlePassed /\ asm_ret = "True" /\ response.code = 200
    /\ Len(scenes) = 2
    /\ video_clips = <<1, 2>> /\ audio_clips = <<1, 2>>
    /\ narrations = <<"n", "n">>

====
